---- MODULE Spec2Model ----
(***************************************************************************)
(* The BenchBot add-on manager (addons/manager.py): install_addon,         *)
(* remove_addon and remove_addons acting on the install root and on the    *)
(* JSON state file.  A name is the sequence of its '/'-separated segments, *)
(* so "a/x" is <<"a", "x">> and "https://github.com/a/x" is                *)
(* <<"https:", "", "github.com", "a", "x">>.  A commit hash is the number  *)
(* of the commit in its repository.                                        *)
(***************************************************************************)
EXTENDS Integers, Sequences, FiniteSets, TLC

\* Number of commits a repository can have upstream.
MaxCommit == 2
\* Deepest nesting of install_addon calls that is followed.
MaxDepth == 4
\* Longest list of names given to remove_addons.
MaxTargets == 1

VARIABLES
    file,      \* the state file: whether it exists, and the ordered mapping it holds
    dirs,      \* canonical names whose install path exists
    parents,   \* owners whose directory exists under the install root
    head,      \* per add-on: HEAD of its working copy, 0 when there is no .git
    target,    \* per add-on: the archive extracted at its target path, 0 when none
    origin,    \* per add-on: the upstream default branch, 0 when no such repository
    proc,      \* the call in progress, its inputs and its outcome
    stack,     \* the frames of the nested install_addon calls
    pre,       \* the state file and the disk as they were when the call started
    hist,      \* what the call in progress has done so far: the add-ons it entered,
               \* those it finished, and those whose latest download failed
    ran,       \* the external commands run by the last step
    typed,     \* what the last step read from the terminal, "none" when nothing
    tools      \* the invocations of the tool that run side by side, one per process

vars == <<file, dirs, parents, head, target, origin, proc, stack, pre, hist, ran, typed,
         tools>>

disk == [dirs |-> dirs, parents |-> parents, head |-> head, target |-> target]

----------------------------------------------------------------------------
(* Names *)

X == <<"a", "x">>
Y == <<"a", "y">>
Z == <<"b", "z">>
W == <<"b", "w">>

Addons == {X, Y, Z, W}

URL_GITHUB == <<"https:", "", "github.com">>

Short(a) == a
Url(a) == URL_GITHUB \o a

Refs == {Short(a) : a \in Addons} \cup {Url(a) : a \in Addons}

\* The names given to remove_addons: short names, and one full URL.
TargetRefs == {Short(X), Short(Y), Short(Z), Url(Z)}

startswith_http(name) == Head(name) \in {"http:", "https:"}

LastTwo(url) == SubSeq(url, Len(url) - 1, Len(url))

_parse_name(name) ==
    LET url == IF startswith_http(name) THEN name ELSE URL_GITHUB \o name
        seg == LastTwo(url)
    IN  [url |-> url, repo_user |-> seg[1], repo_name |-> seg[2],
         name |-> <<seg[1], seg[2]>>]

Canon(name) == _parse_name(name).name

Owner(a) == a[1]

----------------------------------------------------------------------------
(* The repositories: what a working copy at a given commit contains *)

\* The .dependencies file of add-on a at commit c, one reference per line.
FileDependencies(a, c) ==
    IF a = X THEN (IF c = 1 THEN <<Short(Y)>> ELSE <<Short(Y), Short(W), Url(Z)>>)
    ELSE IF a = Y THEN <<Short(Z)>>
    ELSE IF a = Z THEN (IF c = 1 THEN <<>> ELSE <<Short(X)>>)
    ELSE <<>>

NoRemote == [url |-> 0, target |-> "none"]

\* The .remote file of add-on a at commit c: NoRemote when the file is absent.
FileRemote(a, c) ==
    IF a = X /\ c >= 2 THEN [url |-> c - 1, target |-> "data"] ELSE NoRemote

\* The repositories that exist upstream from the start.
InitialOrigin == [a \in Addons |-> IF a = W THEN 0 ELSE 1]

\* The commits the repository of add-on a ever gets.
LastCommit(a) == IF a = X THEN MaxCommit ELSE IF a = Z THEN 2 ELSE 1

----------------------------------------------------------------------------
(* The state file *)

\* The state file does not exist until the first dump_state.
NoFile == [exists |-> FALSE, content |-> <<>>]

get_state(f) == IF f.exists THEN f.content ELSE <<>>

dump_state(state) == [exists |-> TRUE, content |-> state]

Keys(state) == [i \in 1..Len(state) |-> state[i].key]

Has(state, k) == \E i \in 1..Len(state) : state[i].key = k

Get(state, k) == state[CHOOSE i \in 1..Len(state) : state[i].key = k].val

Put(state, k, v) ==
    IF Has(state, k)
    THEN [i \in 1..Len(state) |->
            IF state[i].key = k THEN [key |-> k, val |-> v] ELSE state[i]]
    ELSE Append(state, [key |-> k, val |-> v])

\* Every record of the owner of k goes with it.
Del_owner(state, k) ==
    LET keep(e) == Head(e.key) # Head(k) IN SelectSeq(state, keep)

Del(state, k) ==
    LET keep(e) == e.key # k IN SelectSeq(state, keep)

EmptyRecord == [k \in {} |-> 0]

SetField(rec, f, v) ==
    [k \in (DOMAIN rec) \cup {f} |-> IF k = f THEN v ELSE rec[k]]

Range(s) == {s[i] : i \in 1..Len(s)}

----------------------------------------------------------------------------
(* The call in progress *)

Idle ==
    [op |-> "idle", status |-> "none", arg |-> <<>>, ret |-> <<>>,
     err |-> "none", pc |-> "none", addons |-> <<>>, deps |-> <<>>,
     i |-> 0, flag |-> FALSE]

NoDisk ==
    [dirs |-> {}, parents |-> {}, head |-> [a \in Addons |-> 0],
     target |-> [a \in Addons |-> 0]]

NoPre == [file |-> NoFile, disk |-> NoDisk]

NoHist == [visited |-> <<>>, completed |-> {}, failed |-> {}]

Snapshot == [file |-> file, disk |-> disk]

\* Two processes can run the tool at the same time on one state path.
Processes == {1, 2}

\* A process that runs no invocation: op is the function it runs, name its
\* add-on, state the mapping its get_state call returned, err its outcome.
IdleTool == [op |-> "idle", name |-> <<>>, pc |-> "none", state |-> <<>>, err |-> "none"]

Frame(name) ==
    [name |-> Canon(name), pc |-> "sync", current |-> 0, deps |-> <<>>,
     i |-> 1, ret |-> <<>>]

Top == stack[Len(stack)]

SetTop(f) == [stack EXCEPT ![Len(stack)] = f]

Installing == proc.op = "install_addon" /\ proc.status = "running" /\ stack # <<>>

\* A failure caught by the caller's loop, which goes on with its next dependency.
Unwind_caught(stk) ==
    IF Len(stk) = 1 THEN <<>>
    ELSE [SubSeq(stk, 1, Len(stk) - 1) EXCEPT ![Len(stk) - 1] =
            [stk[Len(stk) - 1] EXCEPT !.i = @ + 1]]

\* An exception raised in a frame passes through every caller: none catches it.
Unwind(stk) == <<>>

Raise(err) ==
    /\ stack' = Unwind(stack)
    /\ proc' = IF stack' = <<>>
               THEN [proc EXCEPT !.status = "raised", !.err = err]
               ELSE proc

----------------------------------------------------------------------------
(* install_addon *)

Init ==
    /\ file = NoFile
    /\ dirs = {}
    /\ parents = {}
    /\ head = [a \in Addons |-> 0]
    /\ target = [a \in Addons |-> 0]
    /\ origin = InitialOrigin
    /\ proc = Idle
    /\ stack = <<>>
    /\ pre = NoPre
    /\ hist = NoHist
    /\ ran = {}
    /\ typed = "none"
    /\ tools = [p \in Processes |-> IdleTool]

\* The user runs install_addon(name).
InstallAddonCall(name) ==
    /\ proc.op = "idle"
    /\ proc' = [Idle EXCEPT !.op = "install_addon", !.status = "running",
                           !.arg = Canon(name)]
    /\ stack' = <<Frame(name)>>
    /\ pre' = Snapshot
    /\ hist' = [NoHist EXCEPT !.visited = <<Canon(name)>>]
    /\ ran' = {}
    /\ typed' = "none"
    /\ UNCHANGED <<file, dirs, parents, head, target, origin, tools>>

\* Lines 104-140: create the install path, then clone or upgrade.
InstallSync ==
    /\ Installing
    /\ Top.pc = "sync"
    /\ LET a == Top.name IN
        /\ dirs' = dirs \cup {a}
        /\ parents' = parents \cup {Owner(a)}
        /\ IF head[a] = 0
           THEN IF origin[a] = 0
                THEN /\ ran' = {"clone"}
                     /\ Raise("CloneError")
                     /\ head' = head
                ELSE /\ ran' = {"clone"}
                     /\ head' = [head EXCEPT ![a] = origin[a]]
                     /\ stack' = SetTop([Top EXCEPT !.current = origin[a], !.pc = "remote"])
                     /\ proc' = proc
           ELSE LET current == head[a]
                    latest == origin[a]
                IN  /\ IF current = latest
                       THEN ran' = {"fetch"} /\ head' = head
                       ELSE ran' = {"fetch", "reset"} /\ head' = [head EXCEPT ![a] = latest]
                    /\ stack' = SetTop([Top EXCEPT !.current = current, !.pc = "remote"])
                    /\ proc' = proc
    /\ UNCHANGED <<file, target, origin, pre, hist, typed, tools>>

\* Line 150-152: the stored pair differs from the descriptor's.
RemoteIsNew(rec, r) ==
    \/ "remote" \notin DOMAIN rec
    \/ rec["remote"] # r.url
    \/ "remote_target" \notin DOMAIN rec
    \/ rec["remote_target"] # r.target

\* The record gets the pair whether or not the download succeeded.
StoreRemote_always(f, a, r, ok) ==
    dump_state(Put(get_state(f), a,
                   SetField(SetField(Get(get_state(f), a), "remote", r.url),
                            "remote_target", r.target)))

\* Lines 154-169: the state file after the download of descriptor r for add-on
\* a; the pair is stored and the state dumped only when wget succeeded (ok).
StoreRemote(f, a, r, ok) ==
    IF ok
    THEN dump_state(Put(get_state(f), a,
                        SetField(SetField(Get(get_state(f), a), "remote", r.url),
                                 "remote_target", r.target)))
    ELSE f

\* Lines 142-171: fetch the remote content when the .remote file asks for it.
InstallRemote ==
    /\ Installing
    /\ Top.pc = "remote"
    /\ LET a == Top.name
           r == FileRemote(a, head[a])
           state == get_state(file)
       IN  IF r = NoRemote
           THEN /\ stack' = SetTop([Top EXCEPT !.pc = "deps"])
                /\ ran' = {}
                /\ UNCHANGED <<file, target, proc, hist>>
           ELSE IF ~Has(state, a)
           THEN /\ Raise("KeyError")
                /\ ran' = {}
                /\ UNCHANGED <<file, target, hist>>
           ELSE IF RemoteIsNew(Get(state, a), r)
           THEN \E ok \in BOOLEAN :
                  /\ IF ok
                     THEN /\ ran' = {"wget", "unzip"} \cup (IF target[a] # 0 THEN {"rm"} ELSE {})
                          /\ target' = [target EXCEPT ![a] = r.url]
                          /\ hist' = [hist EXCEPT !.failed = @ \ {a}]
                     ELSE /\ ran' = {"wget"}
                          /\ target' = target
                          /\ hist' = [hist EXCEPT !.failed = @ \cup {a}]
                  /\ file' = StoreRemote(file, a, r, ok)
                  /\ stack' = SetTop([Top EXCEPT !.pc = "deps"])
                  /\ proc' = proc
           ELSE /\ stack' = SetTop([Top EXCEPT !.pc = "deps"])
                /\ ran' = {}
                /\ UNCHANGED <<file, target, proc, hist>>
    /\ UNCHANGED <<dirs, parents, head, origin, pre, typed, tools>>

\* Lines 173-180: read the dependency list.
InstallDeps ==
    /\ Installing
    /\ Top.pc = "deps"
    /\ stack' = SetTop([Top EXCEPT !.deps = FileDependencies(Top.name, head[Top.name]),
                                    !.ret = <<Top.name>>, !.i = 1, !.pc = "loop"])
    /\ ran' = {}
    /\ UNCHANGED <<file, dirs, parents, head, target, origin, proc, pre, hist, typed, tools>>

\* A dependency this call has already entered is skipped.
InstallLoop_once ==
    /\ Installing
    /\ Top.pc = "loop"
    /\ Top.i <= Len(Top.deps)
    /\ Len(stack) < MaxDepth
    /\ IF Canon(Top.deps[Top.i]) \in Range(hist.visited)
       THEN /\ stack' = SetTop([Top EXCEPT !.i = @ + 1])
            /\ hist' = hist
       ELSE /\ stack' = Append(stack, Frame(Top.deps[Top.i]))
            /\ hist' = [hist EXCEPT !.visited = Append(@, Canon(Top.deps[Top.i]))]
    /\ ran' = {}
    /\ UNCHANGED <<file, dirs, parents, head, target, origin, proc, pre, typed, tools>>

\* Lines 181-182: the recursive call for the next dependency.
InstallLoop ==
    /\ Installing
    /\ Top.pc = "loop"
    /\ Top.i <= Len(Top.deps)
    /\ Len(stack) < MaxDepth
    /\ stack' = Append(stack, Frame(Top.deps[Top.i]))
    /\ hist' = [hist EXCEPT !.visited = Append(@, Canon(Top.deps[Top.i]))]
    /\ ran' = {}
    /\ UNCHANGED <<file, dirs, parents, head, target, origin, proc, pre, typed, tools>>

\* Only the dependency's own name is appended.
ExtendRet_name(ret, sub) == Append(ret, Head(sub))

\* Line 182: the caller appends what the call for a dependency returned.
ExtendRet(ret, sub) == ret \o sub

\* The record is written into a state that was not read back from the file.
UpdateSavedState_stale(state, name, current, deps) ==
    <<[key |-> name, val |-> [hash |-> current, deps |-> deps]]>>

\* Lines 185-189: the record of name gets the hash and the dependency list.
UpdateSavedState(state, name, current, deps) ==
    LET rec == IF Has(state, name) THEN Get(state, name) ELSE EmptyRecord
    IN  Put(state, name, SetField(SetField(rec, "hash", current), "deps", deps))

\* Lines 184-191: save the state and return to the caller.
InstallFinish ==
    /\ Installing
    /\ Top.pc = "loop"
    /\ Top.i > Len(Top.deps)
    /\ file' = dump_state(UpdateSavedState(get_state(file), Top.name, Top.current, Top.deps))
    /\ hist' = [hist EXCEPT !.completed = @ \cup {Top.name}]
    /\ IF Len(stack) = 1
       THEN /\ stack' = <<>>
            /\ proc' = [proc EXCEPT !.status = "returned", !.ret = Top.ret]
       ELSE LET caller == stack[Len(stack) - 1] IN
            /\ stack' = [SubSeq(stack, 1, Len(stack) - 1) EXCEPT ![Len(stack) - 1] =
                            [caller EXCEPT !.ret = ExtendRet(caller.ret, Top.ret),
                                           !.i = caller.i + 1]]
            /\ proc' = proc
    /\ ran' = {}
    /\ UNCHANGED <<dirs, parents, head, target, origin, pre, typed, tools>>

\* The call is over: the tool exits and the user is back at the shell.
Exit ==
    /\ proc.status \in {"returned", "raised"}
    /\ proc' = Idle
    /\ pre' = NoPre
    /\ hist' = NoHist
    /\ ran' = {}
    /\ typed' = "none"
    /\ UNCHANGED <<file, dirs, parents, head, target, origin, stack, tools>>

\* A commit is pushed to the repository of add-on a (its first one creates it).
UpstreamPush(a) ==
    /\ proc.op = "idle"
    /\ origin[a] < LastCommit(a)
    /\ origin' = [origin EXCEPT ![a] = @ + 1]
    /\ UNCHANGED <<file, dirs, parents, head, target, proc, stack, pre, hist, ran, typed, tools>>

----------------------------------------------------------------------------
(* remove_addon *)

\* The test looks at the parent directory instead of the install path.
PathExists_parent(ds, a) == \E d \in ds : Owner(d) = Owner(a)

\* Line 243: the install path of the add-on exists.
PathExists(ds, a) == a \in ds

\* The parent directory goes whether or not something is left in it.
RemoveParent_always(ps, ds, owner) == ps \ {owner}

\* Lines 253-254: the parent directory goes when nothing is left in it.
RemoveParent(ps, ds, owner) ==
    IF owner \in ps /\ ~(\E d \in ds : Owner(d) = owner) THEN ps \ {owner} ELSE ps

\* Lines 237-261 on disk d and state file f: the disk and the file it leaves,
\* the error it raises ("none" when it returns) and the commands it ran.
remove_addon(d, f, name) ==
    LET a == _parse_name(name).name
        state == get_state(f)
    IN  IF ~PathExists(d.dirs, a)
        THEN [disk |-> d, file |-> f, err |-> "NotInstalled", ran |-> {}]
        ELSE LET ds == d.dirs \ {a}
                 ps == RemoveParent(d.parents, ds, Owner(a))
                 d1 == [dirs |-> ds, parents |-> ps,
                        head |-> [d.head EXCEPT ![a] = 0],
                        target |-> [d.target EXCEPT ![a] = 0]]
                 cmds == {"rmtree"} \cup (IF ps # d.parents THEN {"rmdir"} ELSE {})
             IN  IF ~Has(state, a)
                 THEN [disk |-> d1, file |-> f, err |-> "KeyError", ran |-> cmds]
                 ELSE [disk |-> d1, file |-> dump_state(Del(state, a)),
                       err |-> "none", ran |-> cmds]

\* The disk, the state file and the command log become those of result r.
Apply(r) ==
    /\ dirs' = r.disk.dirs
    /\ parents' = r.disk.parents
    /\ head' = r.disk.head
    /\ target' = r.disk.target
    /\ file' = r.file
    /\ ran' = r.ran

\* The user runs remove_addon(name).
RemoveAddonCall(name) ==
    /\ proc.op = "idle"
    /\ LET r == remove_addon(disk, file, name) IN
        /\ Apply(r)
        /\ proc' = [Idle EXCEPT !.op = "remove_addon", !.arg = Canon(name),
                                !.status = IF r.err = "none" THEN "returned" ELSE "raised",
                                !.err = r.err]
    /\ pre' = Snapshot
    /\ hist' = NoHist
    /\ typed' = "none"
    /\ UNCHANGED <<origin, stack, tools>>

----------------------------------------------------------------------------
(* remove_addons *)

\* The lists of names the user can give: the empty list stands for None or "".
Strings == UNION {[1..n -> TargetRefs] : n \in 0..MaxTargets}

\* What the user can type at the prompt.
Answers == {"y", "Y", "yes", "n", ""}

\* The empty answer (the default of the [y/N] prompt) is taken for a yes.
Affirmative_default == {"y", "Y", "yes", ""}

\* Lines 285-287: the answers that let the removal go on.
Affirmative == {"y", "Y", "yes"}

\* Line 277: the installed add-ons whose deps list holds a, in the file's order.
Dependents(state, a) ==
    LET lists(k) == a \in Range(Get(state, k)["deps"])
    IN  SelectSeq(Keys(state), lists)

\* Lines 274-277: the dependents of each of addons, one after the other.
RECURSIVE AllDependents(_, _)
AllDependents(state, addons) ==
    IF addons = <<>> THEN <<>>
    ELSE Dependents(state, Head(addons)) \o AllDependents(state, Tail(addons))

\* remove_addons without the early return of lines 268-269.
RemoveAddonsCall_ask(string, remove_dependents) ==
    /\ proc.op = "idle"
    /\ LET state == get_state(file)
           addons == IF string = <<>> THEN Keys(state) ELSE string
           deps == IF remove_dependents THEN AllDependents(state, addons) ELSE <<>>
       IN  proc' = [Idle EXCEPT !.op = "remove_addons", !.arg = string,
                                !.flag = remove_dependents, !.status = "running",
                                !.pc = "prompt", !.addons = addons, !.deps = deps]
    /\ pre' = Snapshot
    /\ hist' = NoHist
    /\ ran' = {}
    /\ typed' = "none"
    /\ UNCHANGED <<file, dirs, parents, head, target, origin, stack, tools>>

\* Lines 264-284: resolve what to remove, print it and ask.
RemoveAddonsCall(string, remove_dependents) ==
    /\ proc.op = "idle"
    /\ LET state == get_state(file)
           addons == IF string = <<>> THEN Keys(state) ELSE string
           deps == IF remove_dependents THEN AllDependents(state, addons) ELSE <<>>
       IN  proc' = IF addons = <<>>
                   THEN [Idle EXCEPT !.op = "remove_addons", !.arg = string,
                                     !.flag = remove_dependents, !.status = "returned"]
                   ELSE [Idle EXCEPT !.op = "remove_addons", !.arg = string,
                                     !.flag = remove_dependents, !.status = "running",
                                     !.pc = "prompt", !.addons = addons, !.deps = deps]
    /\ pre' = Snapshot
    /\ hist' = NoHist
    /\ ran' = {}
    /\ typed' = "none"
    /\ UNCHANGED <<file, dirs, parents, head, target, origin, stack, tools>>

\* Lines 285-290: the answer is read; anything but an affirmative one returns.
Confirm(answer) ==
    /\ proc.op = "remove_addons"
    /\ proc.status = "running"
    /\ proc.pc = "prompt"
    /\ typed' = answer
    /\ proc' = IF answer \notin Affirmative
               THEN [proc EXCEPT !.status = "returned"]
               ELSE [proc EXCEPT !.pc = "remove", !.i = 1,
                                 !.addons = proc.addons \o proc.deps]
    /\ ran' = {}
    /\ UNCHANGED <<file, dirs, parents, head, target, origin, stack, pre, hist, tools>>

\* Lines 292-293: remove_addon for the next add-on of the list.
RemoveNext ==
    /\ proc.op = "remove_addons"
    /\ proc.status = "running"
    /\ proc.pc = "remove"
    /\ LET r == remove_addon(disk, file, proc.addons[proc.i]) IN
        /\ Apply(r)
        /\ proc' = IF r.err # "none"
                   THEN [proc EXCEPT !.status = "raised", !.err = r.err]
                   ELSE IF proc.i = Len(proc.addons)
                   THEN [proc EXCEPT !.status = "returned"]
                   ELSE [proc EXCEPT !.i = proc.i + 1]
    /\ typed' = "none"
    /\ UNCHANGED <<origin, stack, pre, hist, tools>>

----------------------------------------------------------------------------

Next ==
    \/ \E name \in Refs : InstallAddonCall(name)
    \/ InstallSync
    \/ InstallRemote
    \/ InstallDeps
    \/ InstallLoop
    \/ InstallFinish
    \/ \E name \in Refs : RemoveAddonCall(name)
    \/ \E string \in Strings, remove_dependents \in BOOLEAN :
          RemoveAddonsCall(string, remove_dependents)
    \/ \E answer \in Answers : Confirm(answer)
    \/ RemoveNext
    \/ Exit
    \/ \E a \in Addons : UpstreamPush(a)

Spec == Init /\ [][Next]_vars

\* Lines 98-191: one step of the install_addon call in progress.
InstallStep ==
    InstallSync \/ InstallRemote \/ InstallDeps \/ InstallLoop \/ InstallFinish

\* The call in progress is the only thread and the external commands it waits
\* for terminate, so a call that can take a step takes it.
FairSpec == Spec /\ WF_vars(InstallStep)

----------------------------------------------------------------------------
(* Two invocations on one state path *)

\* The add-ons the concurrent invocations work on: their repositories exist
\* and have neither dependencies nor a .remote file, so that an install is
\* lines 104-140 followed by the state update of lines 184-190.
ConcAddons == {Z, W}

ConcOrigin == [a \in Addons |-> 1]

ConcInit ==
    /\ file = NoFile
    /\ dirs = {}
    /\ parents = {}
    /\ head = [a \in Addons |-> 0]
    /\ target = [a \in Addons |-> 0]
    /\ origin = ConcOrigin
    /\ proc = Idle
    /\ stack = <<>>
    /\ pre = NoPre
    /\ hist = NoHist
    /\ ran = {}
    /\ typed = "none"
    /\ tools = [p \in Processes |-> IdleTool]

Busy(a) == \E q \in Processes : tools[q].op # "idle" /\ tools[q].name = a

\* Process p starts install_addon(a) or remove_addon(a) on an add-on no other
\* running invocation works on.
ToolStart(p, op, a) ==
    /\ tools[p].op = "idle"
    /\ ~Busy(a)
    /\ FileDependencies(a, origin[a]) = <<>>
    /\ FileRemote(a, origin[a]) = NoRemote
    /\ tools' = [tools EXCEPT ![p] = [IdleTool EXCEPT !.op = op, !.name = a, !.pc = "disk"]]
    /\ UNCHANGED <<file, dirs, parents, head, target, origin, proc, stack, pre, hist,
                   ran, typed>>

\* Lines 104-140 in process p: create the install path, clone or upgrade.
ToolInstallSync(p) ==
    /\ tools[p].op = "install_addon"
    /\ tools[p].pc = "disk"
    /\ LET a == tools[p].name IN
        /\ dirs' = dirs \cup {a}
        /\ parents' = parents \cup {Owner(a)}
        /\ head' = [head EXCEPT ![a] = origin[a]]
    /\ tools' = [tools EXCEPT ![p].pc = "read"]
    /\ UNCHANGED <<file, target, origin, proc, stack, pre, hist, ran, typed>>

\* Lines 243-254 in process p: the path must exist and is removed.
ToolRemoveDisk(p) ==
    /\ tools[p].op = "remove_addon"
    /\ tools[p].pc = "disk"
    /\ LET a == tools[p].name IN
        IF ~PathExists(dirs, a)
        THEN /\ tools' = [tools EXCEPT ![p].pc = "done", ![p].err = "NotInstalled"]
             /\ UNCHANGED <<dirs, parents, head, target>>
        ELSE /\ dirs' = dirs \ {a}
             /\ parents' = RemoveParent(parents, dirs \ {a}, Owner(a))
             /\ head' = [head EXCEPT ![a] = 0]
             /\ target' = [target EXCEPT ![a] = 0]
             /\ tools' = [tools EXCEPT ![p].pc = "read"]
    /\ UNCHANGED <<file, origin, proc, stack, pre, hist, ran, typed>>

\* Lines 185 and 259 in process p: get_state reads the whole file.
ToolRead(p) ==
    /\ tools[p].op \in {"install_addon", "remove_addon"}
    /\ tools[p].pc = "read"
    /\ tools' = [tools EXCEPT ![p].state = get_state(file), ![p].pc = "write"]
    /\ UNCHANGED <<file, dirs, parents, head, target, origin, proc, stack, pre, hist,
                   ran, typed>>

\* The update starts from the file as it is at the time of the write.
WriteBase_reread(p) == get_state(file)

\* Lines 186-190 and 260-261: the mapping process p updates and dumps is the
\* one its own get_state call returned.
WriteBase(p) == tools[p].state

\* Lines 186-190 in process p: the record is set and the whole file written.
ToolInstallWrite(p) ==
    /\ tools[p].op = "install_addon"
    /\ tools[p].pc = "write"
    /\ LET a == tools[p].name IN
        file' = dump_state(UpdateSavedState(WriteBase(p), a, head[a],
                                            FileDependencies(a, head[a])))
    /\ tools' = [tools EXCEPT ![p].pc = "done"]
    /\ UNCHANGED <<dirs, parents, head, target, origin, proc, stack, pre, hist, ran, typed>>

\* Lines 260-261 in process p: the record is deleted and the whole file written.
ToolRemoveWrite(p) ==
    /\ tools[p].op = "remove_addon"
    /\ tools[p].pc = "write"
    /\ LET a == tools[p].name IN
        IF ~Has(WriteBase(p), a)
        THEN /\ tools' = [tools EXCEPT ![p].pc = "done", ![p].err = "KeyError"]
             /\ file' = file
        ELSE /\ tools' = [tools EXCEPT ![p].pc = "done"]
             /\ file' = dump_state(Del(WriteBase(p), a))
    /\ UNCHANGED <<dirs, parents, head, target, origin, proc, stack, pre, hist, ran, typed>>

\* The invocation of process p is over and the process exits.
ToolExit(p) ==
    /\ tools[p].pc = "done"
    /\ tools' = [tools EXCEPT ![p] = IdleTool]
    /\ UNCHANGED <<file, dirs, parents, head, target, origin, proc, stack, pre, hist,
                   ran, typed>>

ConcNext ==
    \/ \E p \in Processes, op \in {"install_addon", "remove_addon"}, a \in ConcAddons :
          ToolStart(p, op, a)
    \/ \E p \in Processes : ToolInstallSync(p)
    \/ \E p \in Processes : ToolRemoveDisk(p)
    \/ \E p \in Processes : ToolRead(p)
    \/ \E p \in Processes : ToolInstallWrite(p)
    \/ \E p \in Processes : ToolRemoveWrite(p)
    \/ \E p \in Processes : ToolExit(p)

ConcSpec == ConcInit /\ [][ConcNext]_vars

----------------------------------------------------------------------------
(* Properties *)

Records == get_state(file)

RecordsBefore == get_state(pre.file)

Returned(op) == proc.op = op /\ proc.status = "returned"

Raised(op) == proc.op = op /\ proc.status = "raised"

AtRest == proc.op = "idle" \/ proc.status \in {"returned", "raised"}

Last(s) == s[Len(s)]

\* The stored (remote, remote_target) pair of add-on a: NoRemote when there is none.
StoredRemote(state, a) ==
    IF Has(state, a) /\ "remote" \in DOMAIN Get(state, a)
                    /\ "remote_target" \in DOMAIN Get(state, a)
    THEN [url |-> Get(state, a)["remote"], target |-> Get(state, a)["remote_target"]]
    ELSE NoRemote

\* The names install_addon(a) returns when every call it makes returns: a, then
\* what each declared dependency returns, for the working copies on disk.
RECURSIVE Flatten(_, _), FlattenAll(_, _)
Flatten(a, fuel) ==
    IF fuel = 0 THEN <<a>>
    ELSE <<a>> \o FlattenAll(FileDependencies(a, head[a]), fuel - 1)
FlattenAll(ds, fuel) ==
    IF ds = <<>> THEN <<>>
    ELSE Flatten(Canon(Head(ds)), fuel) \o FlattenAll(Tail(ds), fuel)

\* C1: whenever no call is running, an add-on has a record in the state file
\* if and only if its directory exists under the install root.
C1_RecordIffDirectory ==
    AtRest => \A a \in Addons : Has(Records, a) <=> a \in dirs

\* C2: in the step of install_addon that handles a .remote descriptor, the
\* download is attempted if and only if the descriptor's pair differs from the
\* pair stored in the add-on's record (no record, no stored pair); when the
\* pairs are the same the state file is left as it was.
C2_DownloadIffPairDiffers ==
    [][(Installing /\ Top.pc = "remote" /\ FileRemote(Top.name, head[Top.name]) # NoRemote)
        => LET differs == StoredRemote(Records, Top.name) # FileRemote(Top.name, head[Top.name])
           IN  /\ ("wget" \in ran') <=> differs
               /\ ~differs => file' = file]_vars

\* C3: when install_addon(X) returns, it returns X's canonical name followed by
\* what each declared dependency returns, in declared order and with repeats;
\* with no .dependencies file it returns exactly <<X>>.
C3_ReturnedSequence ==
    Returned("install_addon") =>
        /\ proc.ret = Flatten(proc.arg, MaxDepth)
        /\ Head(proc.ret) = proc.arg
        /\ FileDependencies(proc.arg, head[proc.arg]) = <<>> => proc.ret = <<proc.arg>>

C3_Witness ==
    Returned("install_addon") /\ proc.ret = <<X, Y, Z, W, Z>>

Fresh == RecordsBefore = <<>> /\ pre.disk = NoDisk

\* C4: when install_addon(X) returns on a fresh system, the state file holds a
\* record for exactly the add-ons of the returned sequence, each with the
\* dependency list its .dependencies file declares, in declared order.
C4_FreshInstallRecords ==
    (Returned("install_addon") /\ Fresh) =>
        /\ Range(Keys(Records)) = Range(proc.ret)
        /\ \A a \in Range(proc.ret) :
              /\ Has(Records, a)
              /\ Get(Records, a)["deps"] = FileDependencies(a, head[a])
              /\ Get(Records, a)["hash"] = head[a]

C4_Witness ==
    /\ Returned("install_addon") /\ Fresh
    /\ proc.ret = <<X, Y, Z>>
    /\ Get(Records, X)["deps"] = <<Short(Y)>>
    /\ Get(Records, Z)["deps"] = <<>>

WasInstalled(a) == a \in pre.disk.dirs /\ Has(RecordsBefore, a)

\* C5: remove_addon(X) on an installed add-on returns with X's record and
\* directory gone and nothing else removed; the owner's directory is gone if
\* and only if no other add-on directory is left in it.
C5_RemoveInstalled ==
    (proc.op = "remove_addon" /\ WasInstalled(proc.arg)) =>
        /\ proc.status = "returned"
        /\ ~Has(Records, proc.arg)
        /\ Keys(Records) = Keys(Del(RecordsBefore, proc.arg))
        /\ dirs = pre.disk.dirs \ {proc.arg}
        /\ Owner(proc.arg) \in parents <=> \E d \in dirs : Owner(d) = Owner(proc.arg)
        /\ parents \ {Owner(proc.arg)} = pre.disk.parents \ {Owner(proc.arg)}

C5_Witness ==
    /\ Returned("remove_addon") /\ WasInstalled(proc.arg)
    /\ proc.arg = Y
    /\ X \in dirs
    /\ Owner(Y) \in parents
    /\ Owner(Z) \notin parents

\* C6: at the prompt of remove_addons, the resolved set is the targets plus,
\* when remove_dependents is set, every installed add-on whose deps list names a
\* target, and nothing else; without remove_dependents it is the targets.
C6_RemovalSet ==
    (proc.op = "remove_addons" /\ proc.pc = "prompt") =>
        LET targets == {Canon(t) : t \in Range(proc.addons)}
            resolved == {Canon(r) : r \in Range(proc.addons) \cup Range(proc.deps)}
            direct == {k \in Range(Keys(Records)) :
                         \E d \in Range(Get(Records, k)["deps"]) : Canon(d) \in targets}
        IN  resolved = IF proc.flag THEN targets \cup direct ELSE targets

Refusal == typed \notin {"y", "Y", "yes", "none"}

\* C7: until the answer is read remove_addons changes nothing, and an answer
\* other than y, Y or yes makes it return with the state file and every
\* directory as they were.
C7_NoChangeWithoutConfirmation ==
    (proc.op = "remove_addons") =>
        /\ proc.pc = "prompt" => file = pre.file /\ disk = pre.disk
        /\ Refusal => proc.pc = "prompt" /\ proc.status = "returned"

C7_Witness ==
    /\ proc.op = "remove_addons" /\ typed = "n" /\ proc.status = "returned"
    /\ proc.deps # <<>>
    /\ Len(Records) = 3 /\ disk = pre.disk

NotCompleted == Range(hist.visited) \ hist.completed

\* Nothing is entered after an add-on whose clone failed.
FailureEndsCall ==
    proc.op = "install_addon" =>
        \A i \in 1..(Len(hist.visited) - 1) : head[hist.visited[i]] # 0

\* C8 as stated: when a clone fails, install_addon(X) raises, nothing is
\* installed after the failing add-on, the records of X and of every add-on
\* whose install did not complete are as before the call, and the add-ons
\* that completed have their record.
C8_CloneFailureWritesNothing ==
    /\ FailureEndsCall
    /\ (Raised("install_addon") /\ proc.err = "CloneError") =>
          /\ head[Last(hist.visited)] = 0
          /\ ~Has(Records, Last(hist.visited))
          /\ \A a \in hist.completed : Has(Records, a)
          /\ \A a \in NotCompleted :
                /\ Has(Records, a) <=> Has(RecordsBefore, a)
                /\ Has(Records, a) => Get(Records, a) = Get(RecordsBefore, a)

\* C8 as amended: the same, except that the record of an add-on whose install
\* did not complete keeps its hash and deps, while its remote and
\* remote_target can have been written by a download made before the failure.
C8_CloneFailureKeepsHashAndDeps ==
    /\ FailureEndsCall
    /\ (Raised("install_addon") /\ proc.err = "CloneError") =>
          /\ head[Last(hist.visited)] = 0
          /\ ~Has(Records, Last(hist.visited))
          /\ \A a \in hist.completed : Has(Records, a)
          /\ \A a \in NotCompleted :
                /\ Has(Records, a) <=> Has(RecordsBefore, a)
                /\ Has(Records, a) =>
                      /\ Get(Records, a)["hash"] = Get(RecordsBefore, a)["hash"]
                      /\ Get(Records, a)["deps"] = Get(RecordsBefore, a)["deps"]

C8_Witness ==
    /\ Raised("install_addon") /\ proc.err = "CloneError"
    /\ hist.visited = <<X, Y, Z, W>>
    /\ hist.completed = {Y, Z}
    /\ StoredRemote(Records, X) # NoRemote
    /\ StoredRemote(RecordsBefore, X) = NoRemote

\* C9: remove_addon(X) with no directory for X raises the not-installed error
\* and leaves the state file and the disk as they were.
C9_RemoveMissing ==
    (proc.op = "remove_addon" /\ proc.arg \notin pre.disk.dirs) =>
        /\ proc.status = "raised"
        /\ proc.err = "NotInstalled"
        /\ file = pre.file
        /\ disk = pre.disk

C9_Witness ==
    /\ Raised("remove_addon") /\ proc.arg \notin pre.disk.dirs
    /\ proc.arg = X
    /\ Y \in dirs /\ Has(Records, Y)

UpToDateBefore(a) ==
    Has(RecordsBefore, a) /\ pre.disk.head[a] # 0 /\ pre.disk.head[a] = origin[a]

\* C10: when install_addon(X) returns for an installed X whose HEAD was the
\* remote default branch, X's working copy was not reset, no extracted content
\* was deleted, and the hash in X's record is the one it held before.
C10_UpToDateReinstall ==
    (Returned("install_addon") /\ UpToDateBefore(proc.arg)) =>
        /\ head[proc.arg] = pre.disk.head[proc.arg]
        /\ pre.disk.target[proc.arg] # 0 => target[proc.arg] = pre.disk.target[proc.arg]
        /\ Get(Records, proc.arg)["hash"] = Get(RecordsBefore, proc.arg)["hash"]

SameRemoteFields(a) ==
    /\ Has(Records, a) /\ Has(RecordsBefore, a)
    /\ \A k \in {"remote", "remote_target"} :
          /\ k \in DOMAIN Get(Records, a) <=> k \in DOMAIN Get(RecordsBefore, a)
          /\ k \in DOMAIN Get(Records, a) => Get(Records, a)[k] = Get(RecordsBefore, a)[k]

C12_NoStateFileNothingToRemove ==
    /\ ~file.exists => get_state(file) = <<>>
    /\ (proc.op = "remove_addons" /\ proc.arg = <<>> /\ ~pre.file.exists) =>
          /\ proc.status = "returned"
          /\ proc.pc = "none" /\ typed = "none"
          /\ file = pre.file /\ ~file.exists
          /\ disk = pre.disk

C12_Witness ==
    /\ Returned("remove_addons") /\ proc.arg = <<>>
    /\ ~pre.file.exists
    /\ dirs # {}

InstalledBefore(a) == a \in pre.disk.dirs /\ Has(RecordsBefore, a)

\* The state before the call is one that successful installs produce: the
\* add-ons with a directory are those with a record.
ConsistentBefore == \A a \in Addons : a \in pre.disk.dirs <=> Has(RecordsBefore, a)

\* C13: once confirmed, remove_addons on installed targets, from a state that
\* successful installs produced, does not raise, and when it has finished no
\* add-on of the resolved set (targets and dependents) has a directory or a
\* record, also when an add-on is a target and a dependent of another target.
C13_ConfirmedRemovalCompletes ==
    (/\ proc.op = "remove_addons"
     /\ ConsistentBefore
     /\ \A i \in 1..Len(proc.arg) : InstalledBefore(Canon(proc.arg[i]))) =>
        /\ proc.status # "raised"
        /\ (proc.status = "returned" /\ proc.pc = "remove") =>
              \A i \in 1..Len(proc.addons) :
                  /\ Canon(proc.addons[i]) \notin dirs
                  /\ ~Has(Records, Canon(proc.addons[i]))

\* C14: the installation of an add-on that has a .remote file and no record
\* yet does not fail on the lookup of its record: the remote counts as new, it
\* is downloaded, and after a successful download the call returns with a
\* record holding hash, deps, remote and remote_target.
C14_FreshInstallWithRemote ==
    /\ proc.op = "install_addon" => proc.err # "KeyError"
    /\ (/\ Returned("install_addon")
        /\ ~Has(RecordsBefore, proc.arg)
        /\ FileRemote(proc.arg, head[proc.arg]) # NoRemote
        /\ proc.arg \notin hist.failed) =>
          /\ Has(Records, proc.arg)
          /\ DOMAIN Get(Records, proc.arg) = {"hash", "deps", "remote", "remote_target"}
          /\ StoredRemote(Records, proc.arg) = FileRemote(proc.arg, head[proc.arg])

\* C15: in every record of the state file each entry of deps is the canonical
\* owner/repo name, also when the .dependencies file gave a URL; so, for
\* targets given by their canonical name, the dependent expansion holds every
\* installed add-on that declares a target as a dependency, in either form.
C15_DepsStoredCanonical ==
    /\ \A k \in Range(Keys(Records)) :
          \A d \in Range(Get(Records, k)["deps"]) : d = Canon(d)
    /\ (/\ proc.op = "remove_addons" /\ proc.status = "running"
        /\ proc.pc = "prompt" /\ proc.flag
        /\ \A i \in 1..Len(proc.addons) : proc.addons[i] = Canon(proc.addons[i])) =>
          \A k \in Range(Keys(Records)) :
              (\E d \in Range(Get(Records, k)["deps"]) :
                   Canon(d) \in Range(proc.addons)) => k \in Range(proc.deps)

\* The add-ons that the .dependencies file of a names once a is synchronised
\* with its upstream, which is what the install of a recurses into.
Edges(a) ==
    IF origin[a] = 0 THEN {}
    ELSE {Canon(d) : d \in Range(FileDependencies(a, origin[a]))}

RECURSIVE ReachN(_, _)
ReachN(S, n) == IF n = 0 THEN S ELSE ReachN(S \cup UNION {Edges(a) : a \in S}, n - 1)

Reachable(a) == ReachN({a}, Cardinality(Addons))

OnCycle(a) == a \in ReachN(Edges(a), Cardinality(Addons))

CycleFrom(a) == \E b \in Reachable(a) : OnCycle(b)

SameRecord(a) ==
    /\ Has(Records, a) <=> Has(RecordsBefore, a)
    /\ Has(Records, a) => Get(Records, a) = Get(RecordsBefore, a)

SameHashAndDeps(a) ==
    /\ Has(Records, a) <=> Has(RecordsBefore, a)
    /\ Has(Records, a) =>
          \A k \in {"hash", "deps"} :
              /\ k \in DOMAIN Get(Records, a) <=> k \in DOMAIN Get(RecordsBefore, a)
              /\ k \in DOMAIN Get(Records, a) =>
                    Get(Records, a)[k] = Get(RecordsBefore, a)[k]

\* C16 as stated: when a dependency cycle can be reached from X,
\* install_addon(X) never returns and the call writes no state record of any
\* add-on on the cycle.
C16_CycleWritesNoRecord ==
    (proc.op = "install_addon" /\ CycleFrom(proc.arg)) =>
        /\ proc.status # "returned"
        /\ \A a \in Reachable(proc.arg) : OnCycle(a) => SameRecord(a)

\* C16, amended: install_addon(X) comes to an end when no dependency cycle can
\* be reached from X; when one can, the call never returns and writes neither
\* hash nor deps of any add-on on the cycle, and creates no record for one.
C16_TerminatesIffAcyclic ==
    /\ [](Returned("install_addon") => ~CycleFrom(proc.arg))
    /\ []((proc.op = "install_addon" /\ CycleFrom(proc.arg)) =>
            \A a \in Reachable(proc.arg) : OnCycle(a) => SameHashAndDeps(a))
    /\ (Installing /\ ~CycleFrom(proc.arg)) ~> (proc.status \in {"returned", "raised"})

C16_Witness ==
    /\ Installing /\ proc.arg = X /\ CycleFrom(X) /\ OnCycle(X)
    /\ Len(stack) = MaxDepth /\ Top.name = X /\ Top.pc = "loop"
    /\ Has(RecordsBefore, X) /\ ~SameRecord(X)

\* C17: two invocations that run side by side on one state path, each on its
\* own add-on, read and write the whole file independently: what a process
\* writes holds, for every other add-on, the record that process read, whatever
\* was written in between, so an update made between its read and its write
\* is lost.
C17_WholeFileWrite ==
    [][\A p \in Processes :
          (tools[p].pc = "write" /\ tools'[p].pc = "done" /\ tools'[p].err = "none") =>
             \A b \in Addons \ {tools[p].name} :
                 /\ Has(get_state(file'), b) <=> Has(tools[p].state, b)
                 /\ Has(get_state(file'), b) =>
                       Get(get_state(file'), b) = Get(tools[p].state, b)]_vars

\* Both invocations have returned, both add-ons are installed on disk, and the
\* state file lacks the record that the first install wrote.
C17_Witness ==
    /\ \A p \in Processes : /\ tools[p].op = "install_addon"
                             /\ tools[p].pc = "done" /\ tools[p].err = "none"
    /\ tools[1].name = Z /\ tools[2].name = W
    /\ {Z, W} \subseteq dirs /\ head[Z] # 0 /\ head[W] # 0
    /\ Has(Records, W) /\ ~Has(Records, Z)

\* The add-on has a directory and no record, as an interrupted install or
\* removal leaves it.
HalfInstalledBefore(a) == a \in pre.disk.dirs /\ ~Has(RecordsBefore, a)

\* C18: from a state where X has a directory and no record, running the tool
\* again converges: an install_addon(X) whose commands succeed returns and
\* leaves X with directory and record, and a remove_addon(X) completes without
\* error and leaves X with neither.
C18_RerunConverges ==
    /\ (/\ proc.op = "install_addon" /\ HalfInstalledBefore(proc.arg)
        /\ proc.status \in {"returned", "raised"}
        /\ proc.err # "CloneError") =>
          /\ proc.status = "returned"
          /\ proc.arg \in dirs /\ Has(Records, proc.arg)
    /\ (proc.op = "remove_addon" /\ HalfInstalledBefore(proc.arg)) =>
          /\ proc.status = "returned"
          /\ proc.arg \notin dirs /\ ~Has(Records, proc.arg)

\* Add-on a is as it was when the call started: its record, its directory,
\* its working copy and its target path.
Untouched(a) ==
    /\ SameRecord(a)
    /\ a \in dirs <=> a \in pre.disk.dirs
    /\ head[a] = pre.disk.head[a]
    /\ target[a] = pre.disk.target[a]

\* C19: in a single process, install_addon(X) changes the records and the
\* directories of X and of the add-ons reachable from X through declared
\* dependencies only, and remove_addon(X) changes those of X only (and removes
\* at most X's parent directory); every other add-on's record is the same
\* before and after, whether the call returns or raises.
C19_OtherAddonsUntouched ==
    /\ proc.op = "install_addon" =>
          \A a \in Addons \ Reachable(proc.arg) : Untouched(a)
    /\ proc.op = "remove_addon" =>
          /\ \A a \in Addons \ {proc.arg} : Untouched(a)
          /\ parents \subseteq pre.disk.parents
          /\ pre.disk.parents \ parents \subseteq {Owner(proc.arg)}

C19_Witness ==
    /\ Returned("remove_addon") /\ proc.arg = Y
    /\ Has(RecordsBefore, Y) /\ ~Has(Records, Y)
    /\ Has(Records, X) /\ Has(Records, Z)
    /\ X \in dirs /\ Y \notin dirs

====
